---- MODULE Spec2Model ----
(***************************************************************************)
(* A model of the hand-written codecs of wasmbin: the instruction stream   *)
(* (src/instructions/mod.rs), MemArg, BlockType (src/types.rs) and the     *)
(* exception-handling immediates (src/instructions/exceptions.rs).         *)
(*                                                                         *)
(* Representation of integers.  The wire integers are u32 / i64 values     *)
(* that do not fit the integers of the model checker, so an integer is     *)
(* kept as the little-endian sequence of its base-128 groups ("digits"):   *)
(*   - an unsigned value is the sequence without trailing zero groups,     *)
(*     0 being << >>  (2^31 is <<0,0,0,0,8>>, 2^32-1 is                    *)
(*     <<127,127,127,127,15>>);                                            *)
(*   - a signed value is its two's complement groups in their shortest     *)
(*     sign-extended form, the sign being bit 6 of the last group          *)
(*     (0 is <<0>>, -1 is <<127>>, 64 is <<64,0>>).                        *)
(* Bit 6 (0x40) of a u32 is bit 6 of its first group.                      *)
(***************************************************************************)
EXTENDS Integers, Sequences, FiniteSets, TLC

VARIABLES features, kind, origin, pc, src, val, out, back,
          module,     \* the lazy sections of a module, in order
          history,    \* per section: the payload it was read from, whether it was lent mutably
          result,     \* what the last operation on the module returned
          profile,    \* the build profile: "debug" checks integer overflow, "release" wraps
          entered     \* the structured starts left open by the stream before src (u32)

codecvars == <<features, kind, origin, pc, src, val, out, back>>

lazyvars == <<module, history, result>>

runvars == <<profile, entered>>

vars ==
    <<features, kind, origin, pc, src, val, out, back, module, history, result, profile,
      entered>>

(***************************************************************************)
(* Bounds of the model.                                                    *)
(***************************************************************************)
MaxBytes == 4
MaxInstrs == 3
MaxSections == 2

(***************************************************************************)
(* Numbers as base-128 groups.                                             *)
(***************************************************************************)
RECURSIVE Norm(_)
Norm(d) ==
    IF d = << >> THEN << >>
    ELSE IF d[Len(d)] = 0 THEN Norm(SubSeq(d, 1, Len(d) - 1))
    ELSE d

RECURSIVE ToNum(_)
ToNum(n) == IF n = 0 THEN << >> ELSE <<n % 128>> \o ToNum(n \div 128)

\* value < 2^32
FitsU32(d) == Len(d) < 5 \/ (Len(d) = 5 /\ d[5] < 16)

\* value < 2^31
BelowPow31(d) == Len(d) < 5 \/ (Len(d) = 5 /\ d[5] < 8)

IsNegative(s) == s[Len(s)] >= 64

RECURSIVE SNorm(_)
SNorm(s) ==
    IF Len(s) <= 1 THEN s
    ELSE LET last == s[Len(s)]
             prev == s[Len(s) - 1]
         IN IF (last = 0 /\ prev < 64) \/ (last = 127 /\ prev >= 64)
            THEN SNorm(SubSeq(s, 1, Len(s) - 1))
            ELSE s

\* i64::from(u32)
I64FromU32(d) ==
    IF d = << >> THEN <<0>>
    ELSE IF d[Len(d)] >= 64 THEN Append(d, 0)
    ELSE d

(***************************************************************************)
(* Results of decoders and encoders.                                       *)
(***************************************************************************)
NoValue == [none |-> TRUE]

IndexItem(i) == [item |-> "Index", index |-> i, name |-> ""]
VariantItem(n) == [item |-> "Variant", index |-> 0, name |-> n]

DecodeError(cause) == [cause |-> cause, path |-> << >>]

\* DecodeError::unsupported_discriminant::<ty>(discriminant)
UnsupportedDiscriminant(ty, discriminant) ==
    [cause |-> "UnsupportedDiscriminant", path |-> << >>,
     ty |-> ty, discriminant |-> discriminant]

\* DecodeError::in_path: the frame of an outer level is put in front
in_path(err, item) == [err EXCEPT !.path = <<item>> \o @]

NoError == [cause |-> "", path |-> << >>]

\* minimal: every LEB128 integer read so far was in its shortest form
DecOk(v, rest, minimal) ==
    [ok |-> TRUE, value |-> v, rest |-> rest, minimal |-> minimal, err |-> NoError]

DecErr(err) ==
    [ok |-> FALSE, value |-> NoValue, rest |-> << >>, minimal |-> FALSE, err |-> err]

\* sink: the bytes the writer has received when the call returns
EncOk(bytes) == [ok |-> TRUE, sink |-> bytes, err |-> ""]

EncErr(bytes, cause) == [ok |-> FALSE, sink |-> bytes, err |-> cause]

(***************************************************************************)
(* Wire primitives: u8, unsigned and signed LEB128.                        *)
(***************************************************************************)
DecodeU8(r) ==
    IF r = << >> THEN DecErr(DecodeError("UnexpectedEof"))
    ELSE DecOk(Head(r), Tail(r), TRUE)

\* the continuation bit on every group but the last
Groups(d) == [i \in 1..Len(d) |-> IF i < Len(d) THEN d[i] + 128 ELSE d[i]]

EncodeUnsigned(d) == IF d = << >> THEN <<0>> ELSE Groups(d)

EncodeSigned(s) == Groups(s)

\* number of bytes of the LEB128 integer at the front of r, 0 if it does
\* not end within limit bytes
RECURSIVE LebLen(_, _, _)
LebLen(r, i, limit) ==
    IF i > limit \/ i > Len(r) THEN 0
    ELSE IF r[i] < 128 THEN i
    ELSE LebLen(r, i + 1, limit)

\* the n groups at the front of r, as read (not yet in shortest form)
GroupsAt(r, n, limit) ==
    IF n = 0
    THEN DecErr(DecodeError(IF Len(r) < limit THEN "UnexpectedEof" ELSE "IntegerOverflow"))
    ELSE DecOk([i \in 1..n |-> r[i] % 128], SubSeq(r, n + 1, Len(r)), TRUE)

ReadGroups(r, limit) == GroupsAt(r, LebLen(r, 1, limit), limit)

\* the integer d read from the groups g; it was minimal when no group was
\* dropped to bring it to its shortest form
Checked(g, d, fits) ==
    IF ~fits THEN DecErr(DecodeError("IntegerOverflow"))
    ELSE DecOk(d, g.rest, Len(g.value) = Len(d) \/ (d = << >> /\ Len(g.value) = 1))

U32OfGroups(g) == IF ~g.ok THEN g ELSE Checked(g, Norm(g.value), FitsU32(Norm(g.value)))

DecodeU32(r) == U32OfGroups(ReadGroups(r, 5))

\* an i64 takes at most 10 groups, the tenth holding bit 63 and its extension
I64OfGroups(g) ==
    IF ~g.ok THEN g
    ELSE Checked(g, SNorm(g.value), Len(g.value) < 10 \/ g.value[10] \in {0, 127})

DecodeI64(r) == I64OfGroups(ReadGroups(r, 10))

\* an i32 takes at most 5 groups and lies in -2^31 .. 2^31 - 1
I32OfGroups(g) ==
    IF ~g.ok THEN g
    ELSE Checked(g, SNorm(g.value),
                 Len(g.value) < 5 \/ g.value[5] \in (0..7) \cup (120..127))

DecodeI32(r) == I32OfGroups(ReadGroups(r, 5))

\* a conversion that never fails: the groups are cut to 32 bits
U32TryFromI64_Truncating(s) ==
    [ok |-> TRUE,
     value |-> Norm([i \in 1..(IF Len(s) < 5 THEN Len(s) ELSE 5) |->
                       IF i = 5 THEN s[i] % 16 ELSE s[i]])]

\* u32::try_from(i64)
U32TryFromI64(s) ==
    IF IsNegative(s) \/ ~FitsU32(Norm(s)) THEN [ok |-> FALSE, value |-> << >>]
    ELSE [ok |-> TRUE, value |-> Norm(s)]

(***************************************************************************)
(* Indices: newtypes over u32, encoded as the u32.                         *)
(***************************************************************************)
EncodeId(index) == EncodeUnsigned(index)

DecodeId(r) == DecodeU32(r)

(***************************************************************************)
(* MemArg.                                                                 *)
(***************************************************************************)
MULTI_MEMORY_FLAG == 64

\* x & MULTI_MEMORY_FLAG != 0
HasFlag(d) == d # << >> /\ d[1] >= MULTI_MEMORY_FLAG

\* x | MULTI_MEMORY_FLAG
SetFlag(d) ==
    IF d = << >> THEN <<MULTI_MEMORY_FLAG>>
    ELSE IF HasFlag(d) THEN d
    ELSE [d EXCEPT ![1] = @ + MULTI_MEMORY_FLAG]

\* a mask that leaves the flag bit in place
ClearFlag_Kept(d) == d

\* x & !MULTI_MEMORY_FLAG
ClearFlag(d) ==
    IF HasFlag(d) THEN Norm([d EXCEPT ![1] = @ - MULTI_MEMORY_FLAG]) ELSE d

MemArg(a, m, o) == [align_log2 |-> a, memory |-> m, offset |-> o]

\* an encoder that writes the memory index without setting the flag bit
EncodeMemArg_FlagForgotten(self) ==
    (IF self.memory # << >>
     THEN EncodeUnsigned(self.align_log2) \o EncodeId(self.memory)
     ELSE EncodeUnsigned(self.align_log2))
    \o EncodeUnsigned(self.offset)

\* an encoder that writes the flag bit and the memory index for memory 0 too
EncodeMemArg_AlwaysIndexed(self) ==
    EncodeUnsigned(SetFlag(self.align_log2)) \o EncodeId(self.memory)
    \o EncodeUnsigned(self.offset)

EncodeMemArg(self) ==
    (IF self.memory # << >>
     THEN EncodeUnsigned(SetFlag(self.align_log2)) \o EncodeId(self.memory)
     ELSE EncodeUnsigned(self.align_log2))
    \o EncodeUnsigned(self.offset)

\* the steps of MemArg::decode, each on the result of the read before it
MemArgOffset(align_log2, memory, offset) ==
    IF ~offset.ok THEN offset
    ELSE DecOk(MemArg(ClearFlag(align_log2.value), memory.value, offset.value),
               offset.rest,
               align_log2.minimal /\ memory.minimal /\ offset.minimal)

MemArgMemory(align_log2, memory) ==
    IF ~memory.ok THEN memory
    ELSE MemArgOffset(align_log2, memory, DecodeU32(memory.rest))

MemArgAlign(align_log2) ==
    IF ~align_log2.ok THEN align_log2
    ELSE MemArgMemory(align_log2,
                      IF HasFlag(align_log2.value) THEN DecodeId(align_log2.rest)
                      ELSE DecOk(<< >>, align_log2.rest, TRUE))

DecodeMemArg(r) == MemArgAlign(DecodeU32(r))

(***************************************************************************)
(* AlignedMemArg<ALIGN_LOG2> (threads): a MemArg of a fixed alignment.     *)
(***************************************************************************)
AlignedMemArg(memory, offset) == [memory |-> memory, offset |-> offset]

\* impl From<AlignedMemArg<ALIGN_LOG2>> for MemArg
MemArgFrom(ALIGN_LOG2, arg) == MemArg(ToNum(ALIGN_LOG2), arg.memory, arg.offset)

EncodeAlignedMemArg(ALIGN_LOG2, self) == EncodeMemArg(MemArgFrom(ALIGN_LOG2, self))

\* a decoder that takes the MemArg whatever its alignment
AlignedOfMemArg_Unchecked(ALIGN_LOG2, arg) ==
    IF ~arg.ok THEN arg
    ELSE DecOk(AlignedMemArg(arg.value.memory, arg.value.offset), arg.rest, arg.minimal)

\* arg: the result of MemArg::decode
AlignedOfMemArg(ALIGN_LOG2, arg) ==
    IF ~arg.ok THEN arg
    ELSE IF arg.value.align_log2 # ToNum(ALIGN_LOG2)
    THEN DecErr(UnsupportedDiscriminant("AlignedMemArg", arg.value.offset))
    ELSE DecOk(AlignedMemArg(arg.value.memory, arg.value.offset), arg.rest, arg.minimal)

DecodeAlignedMemArg(ALIGN_LOG2, r) == AlignedOfMemArg(ALIGN_LOG2, DecodeMemArg(r))

\* MemArg8, MemArg16, MemArg32, MemArg64
AlignedKinds == {"MemArg8", "MemArg16", "MemArg32", "MemArg64"}

AlignOf(k) ==
    CASE k = "MemArg8" -> 0
      [] k = "MemArg16" -> 1
      [] k = "MemArg32" -> 2
      [] k = "MemArg64" -> 3

(***************************************************************************)
(* Value types, reference types and block types.                           *)
(***************************************************************************)
OP_CODE_EMPTY_BLOCK == 64

RefTypes ==
    {"Func", "Extern"}
    \cup (IF "exception-handling" \in features THEN {"Exception"} ELSE {})

RefTypeByte(ty) ==
    CASE ty = "Func" -> 112
      [] ty = "Extern" -> 111
      [] ty = "Exception" -> 105

ValueTypes == {"V128", "F64", "F32", "I64", "I32"} \cup RefTypes

ValueTypeByte(ty) ==
    CASE ty = "V128" -> 123
      [] ty = "F64" -> 124
      [] ty = "F32" -> 125
      [] ty = "I64" -> 126
      [] ty = "I32" -> 127
      [] OTHER -> RefTypeByte(ty)

\* ValueType::maybe_decode_with_discriminant: the types of that discriminant
ValueTypeOfByte(b) == {ty \in ValueTypes : ValueTypeByte(ty) = b}

BlockTypeEmpty == [tag |-> "Empty"]
BlockTypeValue(ty) == [tag |-> "Value", ty |-> ty]
BlockTypeMultiValue(index) == [tag |-> "MultiValue", index |-> index]

\* an encoder that writes the type index as an unsigned LEB128
EncodeBlockType_Unsigned(self) ==
    CASE self.tag = "Empty" -> <<OP_CODE_EMPTY_BLOCK>>
      [] self.tag = "Value" -> <<ValueTypeByte(self.ty)>>
      [] self.tag = "MultiValue" -> EncodeUnsigned(self.index)

EncodeBlockType(self) ==
    CASE self.tag = "Empty" -> <<OP_CODE_EMPTY_BLOCK>>
      [] self.tag = "Value" -> <<ValueTypeByte(self.ty)>>
      [] self.tag = "MultiValue" -> EncodeSigned(I64FromU32(self.index))

\* the multi-value case: u32::try_from of the i64 read from the chained bytes
BlockTypeIndex(as_i64, index) ==
    IF ~as_i64.ok
    THEN DecErr(in_path(as_i64.err, VariantItem("BlockType::MultiValue")))
    ELSE IF ~index.ok
    THEN DecErr(in_path(DecodeError("IntegerOverflow"),
                        VariantItem("BlockType::MultiValue")))
    ELSE DecOk(BlockTypeMultiValue(index.value), as_i64.rest, as_i64.minimal)

BlockTypeMultiValueCase(as_i64) ==
    BlockTypeIndex(as_i64,
                   IF as_i64.ok THEN U32TryFromI64(as_i64.value)
                   ELSE [ok |-> FALSE, value |-> << >>])

BlockTypeOfDiscriminant(discriminant, r) ==
    IF ~discriminant.ok THEN discriminant
    ELSE IF discriminant.value = OP_CODE_EMPTY_BLOCK
    THEN DecOk(BlockTypeEmpty, discriminant.rest, TRUE)
    ELSE IF ValueTypeOfByte(discriminant.value) # {}
    THEN DecOk(BlockTypeValue(CHOOSE ty \in ValueTypeOfByte(discriminant.value) : TRUE),
               discriminant.rest, TRUE)
    ELSE BlockTypeMultiValueCase(DecodeI64(r))

\* the byte read as the discriminant is chained back in front of the rest:
\* the multi-value case reads from r again
DecodeBlockType(r) == BlockTypeOfDiscriminant(DecodeU8(r), r)

(***************************************************************************)
(* Limits, PageSize (custom-page-sizes) and memory types.                  *)
(***************************************************************************)
None == [some |-> FALSE, id |-> << >>]
Some(id) == [some |-> TRUE, id |-> id]

\* MemSize: a u32, a u64 with memory64; unsigned LEB128 of that width
FitsMemSize(d) ==
    IF "memory64" \in features THEN Len(d) < 10 \/ (Len(d) = 10 /\ d[10] < 2)
    ELSE FitsU32(d)

MemSizeOfGroups(g) ==
    IF ~g.ok THEN g ELSE Checked(g, Norm(g.value), FitsMemSize(Norm(g.value)))

DecodeMemSize(r) ==
    MemSizeOfGroups(ReadGroups(r, IF "memory64" \in features THEN 10 ELSE 5))

EncodeMemSize(d) == EncodeUnsigned(d)

\* PageSize::new: size_log2 <= 64
PageSizeNew(size_log2) ==
    IF size_log2 = << >> \/ (Len(size_log2) = 1 /\ size_log2[1] <= 64)
    THEN Some(size_log2)
    ELSE None

EncodePageSize(self) == EncodeUnsigned(self)

PageSizeOfU32(x) ==
    IF ~x.ok THEN x
    ELSE IF PageSizeNew(x.value).some THEN DecOk(PageSizeNew(x.value).id, x.rest, x.minimal)
    ELSE DecErr(UnsupportedDiscriminant("PageSize", x.value))

DecodePageSize(r) == PageSizeOfU32(DecodeU32(r))

Limits(min, max) == [min |-> min, max |-> max]

MemType(page_size, is_mem64, is_shared, limits) ==
    [page_size |-> page_size, is_mem64 |-> is_mem64, is_shared |-> is_shared,
     limits |-> limits]

\* a variant of MemTypeRepr (the two of LimitsRepr under Unshared): its
\* discriminant, the MemType pattern it converts from and to, and its cfg
Variant(tag, is_mem64, is_shared, custom, max, cfg) ==
    [tag |-> tag, is_mem64 |-> is_mem64, is_shared |-> is_shared, custom |-> custom,
     max |-> max, cfg |-> cfg]

MemTypeRepr ==
    { Variant(0, FALSE, FALSE, FALSE, FALSE, {}),
      Variant(1, FALSE, FALSE, FALSE, TRUE, {}),
      Variant(2, FALSE, TRUE, FALSE, FALSE, {"threads"}),
      Variant(3, FALSE, TRUE, FALSE, TRUE, {"threads"}),
      Variant(4, TRUE, FALSE, FALSE, FALSE, {"memory64"}),
      Variant(5, TRUE, FALSE, FALSE, TRUE, {"memory64"}),
      Variant(6, TRUE, TRUE, FALSE, FALSE, {"threads", "memory64"}),
      Variant(7, TRUE, TRUE, FALSE, TRUE, {"threads", "memory64"}),
      Variant(8, FALSE, FALSE, TRUE, FALSE, {"custom-page-sizes"}),
      Variant(9, FALSE, FALSE, TRUE, TRUE, {"custom-page-sizes"}),
      Variant(10, FALSE, TRUE, TRUE, FALSE, {"threads", "custom-page-sizes"}),
      Variant(11, FALSE, TRUE, TRUE, TRUE, {"threads", "custom-page-sizes"}),
      Variant(12, TRUE, FALSE, TRUE, FALSE, {"memory64", "custom-page-sizes"}),
      Variant(13, TRUE, FALSE, TRUE, TRUE, {"memory64", "custom-page-sizes"}),
      Variant(14, TRUE, TRUE, TRUE, FALSE, {"threads", "memory64", "custom-page-sizes"}),
      Variant(15, TRUE, TRUE, TRUE, TRUE, {"threads", "memory64", "custom-page-sizes"}) }

\* the variants compiled in
MemTypeVariants == {v \in MemTypeRepr : v.cfg \subseteq features}

\* the variants whose pattern a MemType matches
VariantsOf(self) ==
    {v \in MemTypeVariants :
        /\ v.is_mem64 = self.is_mem64
        /\ v.is_shared = self.is_shared
        /\ v.custom = self.page_size.some
        /\ v.max = self.limits.max.some}

EncodeVariant_PageSizeFirst(v, self) ==
    <<v.tag>>
    \o (IF v.custom THEN EncodePageSize(self.page_size.id) ELSE << >>)
    \o EncodeMemSize(self.limits.min)
    \o (IF v.max THEN EncodeMemSize(self.limits.max.id) ELSE << >>)

EncodeVariant(v, self) ==
    <<v.tag>>
    \o EncodeMemSize(self.limits.min)
    \o (IF v.max THEN EncodeMemSize(self.limits.max.id) ELSE << >>)
    \o (IF v.custom THEN EncodePageSize(self.page_size.id) ELSE << >>)

EncodeMemType(self) == EncodeVariant(CHOOSE v \in VariantsOf(self) : TRUE, self)

MemTypePageSize(v, min, max, page_size) ==
    IF ~page_size.ok THEN page_size
    ELSE DecOk(MemType(IF v.custom THEN Some(page_size.value) ELSE None,
                       v.is_mem64, v.is_shared,
                       Limits(min.value, IF v.max THEN Some(max.value) ELSE None)),
               page_size.rest,
               min.minimal /\ max.minimal /\ page_size.minimal)

MemTypeMax(v, min, max) ==
    IF ~max.ok THEN max
    ELSE MemTypePageSize(v, min, max,
                         IF v.custom THEN DecodePageSize(max.rest)
                         ELSE DecOk(<< >>, max.rest, TRUE))

MemTypeMin(v, min) ==
    IF ~min.ok THEN min
    ELSE MemTypeMax(v, min,
                    IF v.max THEN DecodeMemSize(min.rest) ELSE DecOk(<< >>, min.rest, TRUE))

\* the variants of a discriminant
VariantsOfTag(tag) == {v \in MemTypeVariants : v.tag = tag}

MemTypeOfTag(tag) ==
    IF ~tag.ok THEN tag
    ELSE IF VariantsOfTag(tag.value) = {}
    THEN DecErr(UnsupportedDiscriminant("MemTypeRepr", ToNum(tag.value)))
    ELSE MemTypeMin(CHOOSE v \in VariantsOfTag(tag.value) : TRUE, DecodeMemSize(tag.rest))

DecodeMemType(r) == MemTypeOfTag(DecodeU8(r))

(***************************************************************************)
(* Sequences with a length prefix (Vec<T> of a countable T).               *)
(***************************************************************************)
\* the value of a u32 below 2^14, and 16384 for every larger one: no input
\* of the model holds that many items
Count(d) == IF Len(d) > 2 THEN 16384
            ELSE IF Len(d) = 2 THEN d[1] + 128 * d[2]
            ELSE IF Len(d) = 1 THEN d[1]
            ELSE 0

(***************************************************************************)
(* Catch clauses (exception-handling).                                     *)
(***************************************************************************)
Catch(catch_ref, exception_filter, target) ==
    [catch_ref |-> catch_ref, exception_filter |-> exception_filter, target |-> target]

\* a conversion that loses catch_ref when there is no filter
CatchReprTag_RefIgnored(self) ==
    CASE ~self.catch_ref /\ self.exception_filter.some -> 0
      [] self.catch_ref /\ self.exception_filter.some -> 1
      [] OTHER -> 2

\* discriminant of the CatchRepr variant a Catch is converted to
CatchReprTag(self) ==
    CASE ~self.catch_ref /\ self.exception_filter.some -> 0
      [] self.catch_ref /\ self.exception_filter.some -> 1
      [] ~self.catch_ref /\ ~self.exception_filter.some -> 2
      [] self.catch_ref /\ ~self.exception_filter.some -> 3

EncodeCatch(self) ==
    <<CatchReprTag(self)>>
    \o (IF self.exception_filter.some THEN EncodeId(self.exception_filter.id) ELSE << >>)
    \o EncodeId(self.target)

CatchTarget(tag, exception, target) ==
    IF ~target.ok THEN target
    ELSE DecOk(Catch(tag.value \in {1, 3},
                     IF tag.value \in {0, 1} THEN Some(exception.value) ELSE None,
                     target.value),
               target.rest,
               exception.minimal /\ target.minimal)

CatchException(tag, exception) ==
    IF ~exception.ok THEN exception
    ELSE CatchTarget(tag, exception, DecodeId(exception.rest))

CatchOfTag(tag) ==
    IF ~tag.ok THEN tag
    ELSE IF tag.value \notin 0..3
    THEN DecErr(UnsupportedDiscriminant("CatchRepr", ToNum(tag.value)))
    ELSE CatchException(tag,
                        IF tag.value \in {0, 1} THEN DecodeId(tag.rest)
                        ELSE DecOk(<< >>, tag.rest, TRUE))

DecodeCatch(r) == CatchOfTag(DecodeU8(r))

RECURSIVE EncodeCatches(_)
EncodeCatches(list) ==
    IF list = << >> THEN << >> ELSE EncodeCatch(Head(list)) \o EncodeCatches(Tail(list))

EncodeCatchVec(list) == EncodeUnsigned(ToNum(Len(list))) \o EncodeCatches(list)

RECURSIVE DecodeCatches(_, _, _, _), CatchesNext(_, _, _, _)

DecodeCatches(r, n, res, minimal) ==
    IF n = 0 THEN DecOk(res, r, minimal)
    ELSE CatchesNext(DecodeCatch(r), n, res, minimal)

CatchesNext(c, n, res, minimal) ==
    IF ~c.ok THEN DecErr(in_path(c.err, IndexItem(Len(res))))
    ELSE DecodeCatches(c.rest, n - 1, Append(res, c.value), minimal /\ c.minimal)

CatchVecOfCount(count) ==
    IF ~count.ok THEN count
    ELSE DecodeCatches(count.rest, Count(count.value), << >>, count.minimal)

DecodeCatchVec(r) == CatchVecOfCount(DecodeU32(r))

(***************************************************************************)
(* Instructions.  A variant is named by its discriminant (repr(u8)).       *)
(***************************************************************************)
OP_CODE_BLOCK_START == 2
OP_CODE_LOOP_START == 3
OP_CODE_IF_START == 4
OP_CODE_END == 11
OP_CODE_THROW == 8
OP_CODE_THROW_REF == 10
OP_CODE_TRY_TABLE == 31
OP_CODE_I32_CONST == 65
OP_CODE_I64_CONST == 66

StartOps == {OP_CODE_BLOCK_START, OP_CODE_LOOP_START, OP_CODE_IF_START}

\* variants without payload
PlainOps ==
    {0, 1, 5, OP_CODE_END, 15, 26, 27, 209} \cup (69..196)
    \cup (IF "exception-handling" \in features THEN {OP_CODE_THROW_REF} ELSE {})

\* variants whose payload is one index
IdOps ==
    {12, 13, 16, 18, 63, 64, 210} \cup (32..38)
    \cup (IF "exception-handling" \in features THEN {OP_CODE_THROW} ELSE {})

MemArgOps == 40..62

TryTableOps == IF "exception-handling" \in features THEN {OP_CODE_TRY_TABLE} ELSE {}

AtomicOps == IF "threads" \in features THEN {254} ELSE {}

\* variants of the enum that the model leaves out: BrTable, CallIndirect,
\* ReturnCallIndirect, SelectWithTypes, F32Const, F64Const, RefNull, Misc,
\* SIMD
OutOfModelOps == {14, 17, 19, 28, 67, 68, 208, 252, 253}

\* the discriminants of Atomic and the alignment of each variant's MemArgN
AtomicDiscriminants == {0, 1, 2} \cup (16..78)

AtomicAlign(sub) ==
    CASE sub \in {0, 1, 16, 22, 23, 29} -> 2
      [] sub \in {2, 17, 24} -> 3
      [] sub \in {18, 20, 25, 27} -> 0
      [] sub \in {19, 21, 26, 28} -> 1
      [] OTHER -> <<2, 3, 0, 1, 0, 1, 2>>[((sub - 30) % 7) + 1]

Atomic(op, sub, arg) == [op |-> op, sub |-> sub, arg |-> arg]

Plain(op) == [op |-> op]
WithBlockType(op, bt) == [op |-> op, bt |-> bt]
WithId(op, id) == [op |-> op, id |-> id]
WithMemArg(op, arg) == [op |-> op, arg |-> arg]
WithConst(op, c) == [op |-> op, const |-> c]
TryTable(block_type, catches, instructions) ==
    [op |-> OP_CODE_TRY_TABLE, block_type |-> block_type, catches |-> catches,
     instructions |-> instructions]

End == Plain(OP_CODE_END)

(***************************************************************************)
(* DepthTracker.                                                           *)
(***************************************************************************)
\* u32::MAX
U32Max == <<127, 127, 127, 127, 15>>

\* depth: a u32, in digits like every u32 of the model
RECURSIVE Succ(_), Pred(_)
Succ(d) ==
    IF d = << >> THEN <<1>>
    ELSE IF d[1] < 127 THEN <<d[1] + 1>> \o Tail(d)
    ELSE <<0>> \o Succ(Tail(d))

\* of a d that is not 0
Pred(d) ==
    IF d[1] > 0 THEN Norm(<<d[1] - 1>> \o Tail(d)) ELSE <<127>> \o Pred(Tail(d))

DepthTrackerDefault == << >>

\* self.depth += 1: at u32::MAX it panics where overflow is checked and
\* wraps to 0 where it is not
inc(depth) ==
    IF depth = U32Max
    THEN [panic |-> profile = "debug", depth |-> << >>]
    ELSE [panic |-> FALSE, depth |-> Succ(depth)]

\* a decrement that saturates at 0 instead of failing
try_dec_Saturating(depth) ==
    [ok |-> TRUE, depth |-> IF depth = << >> THEN << >> ELSE Pred(depth)]

try_dec(depth) ==
    IF depth = << >> THEN [ok |-> FALSE, depth |-> depth]
    ELSE [ok |-> TRUE, depth |-> Pred(depth)]

assert_end(depth) == depth = << >>

Panicked == "attempt to add with overflow"

(***************************************************************************)
(* impl Encode for [Instruction], and the derived encoder of Instruction.  *)
(***************************************************************************)
RECURSIVE EncodeInstruction(_), EncodeInstrLoop(_, _, _, _), EncodeInstrNext(_, _, _, _, _)

EncodeExpression(list) == EncodeInstrLoop(list, 1, DepthTrackerDefault, << >>)

\* the bytes of the fields before the body are in the sink when the body fails
Prefixed(head, body) == [body EXCEPT !.sink = head \o @]

EncodeInstruction(instr) ==
    CASE instr.op \in StartOps ->
           EncOk(<<instr.op>> \o EncodeBlockType(instr.bt))
      [] instr.op \in IdOps ->
           EncOk(<<instr.op>> \o EncodeId(instr.id))
      [] instr.op \in MemArgOps ->
           EncOk(<<instr.op>> \o EncodeMemArg(instr.arg))
      [] instr.op \in {OP_CODE_I32_CONST, OP_CODE_I64_CONST} ->
           EncOk(<<instr.op>> \o EncodeSigned(instr.const))
      [] instr.op \in AtomicOps ->
           EncOk(<<instr.op, instr.sub>>
                 \o EncodeAlignedMemArg(AtomicAlign(instr.sub), instr.arg))
      [] instr.op \in TryTableOps ->
           Prefixed(<<instr.op>> \o EncodeBlockType(instr.block_type)
                        \o EncodeCatchVec(instr.catches),
                    EncodeExpression(instr.instructions))
      [] OTHER -> EncOk(<<instr.op>>)

\* the depth after an instruction of discriminant op
DepthAfter(op, depth) ==
    IF op \in StartOps THEN inc(depth).depth
    ELSE IF op = OP_CODE_END THEN try_dec(depth).depth
    ELSE depth

\* a loop that does not write the End that closes the list
EncodeInstrLoop_NoTerminator(list, i, depth, w) ==
    IF i > Len(list)
    THEN IF assert_end(depth) THEN EncOk(w)
         ELSE EncErr(w, "DepthError")
    ELSE IF list[i].op \in StartOps /\ inc(depth).panic THEN EncErr(w, Panicked)
    ELSE IF list[i].op = OP_CODE_END /\ ~try_dec(depth).ok THEN EncErr(w, "DepthError")
    ELSE EncodeInstrNext(list, i, DepthAfter(list[i].op, depth), w,
                         EncodeInstruction(list[i]))

\* a loop that writes an instruction before it looks at the depth
EncodeInstrLoop_WritesFirst(list, i, depth, w) ==
    IF i > Len(list)
    THEN IF assert_end(depth) THEN EncOk(Append(w, OP_CODE_END))
         ELSE EncErr(w, "DepthError")
    ELSE IF list[i].op \in StartOps /\ inc(depth).panic THEN EncErr(w, Panicked)
    ELSE IF list[i].op = OP_CODE_END /\ ~try_dec(depth).ok
    THEN EncErr(w \o EncodeInstruction(list[i]).sink, "DepthError")
    ELSE EncodeInstrNext(list, i, DepthAfter(list[i].op, depth), w,
                         EncodeInstruction(list[i]))

EncodeInstrLoop(list, i, depth, w) ==
    IF i > Len(list)
    THEN IF assert_end(depth) THEN EncOk(Append(w, OP_CODE_END))
         ELSE EncErr(w, "DepthError")
    ELSE IF list[i].op \in StartOps /\ inc(depth).panic THEN EncErr(w, Panicked)
    ELSE IF list[i].op = OP_CODE_END /\ ~try_dec(depth).ok THEN EncErr(w, "DepthError")
    ELSE EncodeInstrNext(list, i, DepthAfter(list[i].op, depth), w,
                         EncodeInstruction(list[i]))

\* e: what instr.encode(w) of instruction i did
EncodeInstrNext(list, i, depth, w, e) ==
    IF ~e.ok THEN EncErr(w \o e.sink, e.err)
    ELSE EncodeInstrLoop(list, i + 1, depth, w \o e.sink)

(***************************************************************************)
(* impl Decode for Vec<Instruction>, and the derived decoder of            *)
(* Instruction.                                                            *)
(***************************************************************************)
RECURSIVE DecodeInstructionWithDiscriminant(_, _), DecodeInstrLoop(_, _, _, _)
RECURSIVE DecodeExpression(_), DecodeTryTable(_), TryTableCatches(_, _)
RECURSIVE TryTableInstructions(_, _, _), DecodeInstrOp(_, _, _, _), DecodeInstrNext(_, _, _, _)

DecodeExpression(r) == DecodeInstrLoop(r, << >>, DepthTrackerDefault, TRUE)

\* a variant with one payload, from the decode p of the payload
Instruction(op, payload) ==
    CASE op \in StartOps -> WithBlockType(op, payload)
      [] op \in IdOps -> WithId(op, payload)
      [] op \in MemArgOps -> WithMemArg(op, payload)
      [] OTHER -> WithConst(op, payload)

InstructionWith(op, p) ==
    IF ~p.ok THEN p ELSE DecOk(Instruction(op, p.value), p.rest, p.minimal)

TryTableInstructions(block_type, catches, instructions) ==
    IF ~instructions.ok THEN instructions
    ELSE DecOk(TryTable(block_type.value, catches.value, instructions.value),
               instructions.rest,
               block_type.minimal /\ catches.minimal /\ instructions.minimal)

TryTableCatches(block_type, catches) ==
    IF ~catches.ok THEN catches
    ELSE TryTableInstructions(block_type, catches, DecodeExpression(catches.rest))

TryTableBlockType(block_type) ==
    IF ~block_type.ok THEN block_type
    ELSE TryTableCatches(block_type, DecodeCatchVec(block_type.rest))

DecodeTryTable(r) == TryTableBlockType(DecodeBlockType(r))

AtomicWith(op, sub, arg) ==
    IF ~arg.ok THEN arg ELSE DecOk(Atomic(op, sub, arg.value), arg.rest, arg.minimal)

AtomicOfDiscriminant(op, sub) ==
    IF ~sub.ok THEN sub
    ELSE IF sub.value \notin AtomicDiscriminants
    THEN DecErr(UnsupportedDiscriminant("Atomic", ToNum(sub.value)))
    ELSE AtomicWith(op, sub.value, DecodeAlignedMemArg(AtomicAlign(sub.value), sub.rest))

DecodeAtomic(op, r) == AtomicOfDiscriminant(op, DecodeU8(r))

DecodeInstructionWithDiscriminant(op_code, r) ==
    CASE op_code \in StartOps -> InstructionWith(op_code, DecodeBlockType(r))
      [] op_code \in IdOps -> InstructionWith(op_code, DecodeId(r))
      [] op_code \in MemArgOps -> InstructionWith(op_code, DecodeMemArg(r))
      [] op_code = OP_CODE_I32_CONST -> InstructionWith(op_code, DecodeI32(r))
      [] op_code = OP_CODE_I64_CONST -> InstructionWith(op_code, DecodeI64(r))
      [] op_code \in TryTableOps -> DecodeTryTable(r)
      [] op_code \in AtomicOps -> DecodeAtomic(op_code, r)
      [] op_code \in PlainOps -> DecOk(Plain(op_code), r, TRUE)
      [] op_code \in OutOfModelOps -> DecErr(DecodeError("OutOfModel"))
      [] OTHER -> DecErr(UnsupportedDiscriminant("Instruction", ToNum(op_code)))

DecodeInstrLoop(r, res, depth, minimal) == DecodeInstrOp(DecodeU8(r), res, depth, minimal)

\* a loop that pushes the End it stops at
DecodeInstrOp_PushesTerminator(op_code, res, depth, minimal) ==
    IF ~op_code.ok THEN op_code
    ELSE IF op_code.value \in StartOps /\ inc(depth).panic
    THEN DecErr(DecodeError(Panicked))
    ELSE IF op_code.value = OP_CODE_END /\ ~try_dec(depth).ok
    THEN DecOk(Append(res, End), op_code.rest, minimal)
    ELSE DecodeInstrNext(DecodeInstructionWithDiscriminant(op_code.value, op_code.rest),
                         res, DepthAfter(op_code.value, depth), minimal)

\* a loop that takes the end of the input for the end of the list
DecodeInstrOp_EofEndsList(op_code, res, depth, minimal) ==
    IF ~op_code.ok THEN DecOk(res, << >>, minimal)
    ELSE IF op_code.value \in StartOps /\ inc(depth).panic
    THEN DecErr(DecodeError(Panicked))
    ELSE IF op_code.value = OP_CODE_END /\ ~try_dec(depth).ok
    THEN DecOk(res, op_code.rest, minimal)
    ELSE DecodeInstrNext(DecodeInstructionWithDiscriminant(op_code.value, op_code.rest),
                         res, DepthAfter(op_code.value, depth), minimal)

\* op_code: the result of u8::decode(r) at the top of the loop
DecodeInstrOp(op_code, res, depth, minimal) ==
    IF ~op_code.ok THEN op_code
    ELSE IF op_code.value \in StartOps /\ inc(depth).panic
    THEN DecErr(DecodeError(Panicked))
    ELSE IF op_code.value = OP_CODE_END /\ ~try_dec(depth).ok
    THEN DecOk(res, op_code.rest, minimal)
    ELSE DecodeInstrNext(DecodeInstructionWithDiscriminant(op_code.value, op_code.rest),
                         res, DepthAfter(op_code.value, depth), minimal)

\* instr: the result of decode_with_discriminant for position res.len()
DecodeInstrNext(instr, res, depth, minimal) ==
    IF ~instr.ok THEN DecErr(in_path(instr.err, IndexItem(Len(res))))
    ELSE DecodeInstrLoop(instr.rest, Append(res, instr.value), depth,
                         minimal /\ instr.minimal)

(***************************************************************************)
(* Inputs.                                                                 *)
(***************************************************************************)
Features ==
    {"exception-handling", "threads", "memory64", "custom-page-sizes", "tail-call",
     "multi-memory"}

FeatureSets == SUBSET Features

Kinds == {"MemArg", "BlockType", "Expression", "Catch", "MemType"} \cup AlignedKinds

\* the features a type exists under (cfg on its module or declaration)
RequiredFeatures(k) ==
    CASE k \in AlignedKinds -> {"threads"}
      [] k = "Catch" -> {"exception-handling"}
      [] OTHER -> {}

\* the features the codec of a type is compiled differently under; no cfg
\* of these codecs names tail-call or multi-memory
CodecFeatures(k) ==
    CASE k = "MemArg" -> {}
      [] k = "BlockType" -> {"exception-handling"}
      [] k = "Expression" -> {"exception-handling", "threads"}
      [] k \in AlignedKinds -> {"threads"}
      [] k = "Catch" -> {"exception-handling"}
      [] k = "MemType" -> {"threads", "memory64", "custom-page-sizes"}

\* the builds a type is run under: one for each setting of the features
\* that change its codec
BuildsOf(k) ==
    {f \in FeatureSets : RequiredFeatures(k) \subseteq f /\ f \subseteq CodecFeatures(k)}

BytesUpTo(alphabet, n) == UNION {[1..k -> alphabet] : k \in 0..n}

RECURSIVE ListsUpTo(_, _)
ListsUpTo(items, n) ==
    IF n = 0 THEN {<< >>}
    ELSE LET shorter == ListsUpTo(items, n - 1)
         IN shorter \cup {Append(l, x) : l \in {s \in shorter : Len(s) = n - 1}, x \in items}

Pow31 == <<0, 0, 0, 0, 8>>
Pow31Minus1 == <<127, 127, 127, 127, 7>>

MemArgAlphabet == {0, 2, 3, 64, 66, 128, 194, 255}

MemArgLongInputs ==
    { <<255, 255, 255, 255, 15, 0>>,          \* align 2^32 - 1 (flag set), memory 0
      <<255, 255, 255, 255, 15, 0, 0>>,
      <<255, 255, 255, 255, 31, 0>>,          \* align 2^32 + ...: out of range
      <<128, 128, 128, 128, 128, 0, 0>>,      \* a sixth group
      <<194, 128, 128, 128, 0, 3, 0>>,        \* overlong 0x42, memory 3, offset 0
      <<2, 255, 255, 255, 255, 15>> }         \* align 2, offset 2^32 - 1

BlockTypeAlphabet == {1, 64, 65, 127, 128, 255}

BlockTypeLongInputs ==
    { <<105>>, <<111>>, <<112>>, <<123>>, <<124>>, <<125>>, <<126>>,
      <<255, 255, 255, 255, 7>>,              \* 2^31 - 1
      <<128, 128, 128, 128, 8>>,              \* 2^31
      <<255, 255, 255, 255, 15>>,             \* 2^32 - 1
      <<128, 128, 128, 128, 16>>,             \* 2^32
      <<128, 128, 128, 128, 120>>,            \* -2^31
      <<128, 128, 128, 128, 128, 0>>,         \* overlong 0 in six groups
      <<128, 128, 128, 128, 128, 128, 128, 128, 128, 0>>,
      <<128, 128, 128, 128, 128, 128, 128, 128, 128, 1>>,
      <<128, 128, 128, 128, 128, 128, 128, 128, 128, 128, 0>> }

ExpressionAlphabet == {0, 2, 11, 31, 40, 64, 66, 128}

ExpressionLongInputs ==
    { <<40, 66, 2, 0, 11>>,                   \* i32.load align 2 memory 2 offset 0
      <<40, 66, 0, 0, 11>>,                   \* flag set, explicit memory 0
      <<40, 194, 0, 2, 0, 11>>,               \* overlong flagged align
      <<2, 128, 1, 11, 11>>,                  \* block (type 128) end
      <<2, 128, 128, 128, 128, 8, 11, 11>>,   \* block (type 2^31) end
      <<2, 64, 2, 64, 11, 11, 11>>,           \* nested blocks
      <<31, 64, 0, 11, 11>>,                  \* try_table without catches
      <<31, 64, 1, 2, 0, 11, 11>>,            \* try_table catch_all 0
      <<31, 64, 1, 0, 2, 0, 2, 64, 11, 11, 11>>,
      <<1, 65, 127, 11>>,                     \* nop, i32.const -1
      <<12, 0, 11>>, <<8, 0, 11>>, <<10, 11>>, <<254, 0, 11>>, <<6, 11>>,
      <<254, 0, 2, 0, 11>>,                   \* memory.atomic.notify align 2
      <<254, 0, 3, 0, 11>>,                   \* the same, align 3
      <<254, 78, 66, 1, 0, 11>>,              \* i64.atomic.rmw32.cmpxchg_u, memory 1
      <<254, 3, 2, 0, 11>>,                   \* no Atomic has discriminant 3
      <<18, 0, 11>>,                          \* return_call 0
      <<1, 18, 129, 0, 11>> }

AlignedMemArgAlphabet == {0, 1, 2, 3, 65, 66, 130}

AlignedMemArgLongInputs ==
    { <<130, 128, 0, 0>>,                     \* overlong align 2
      <<195, 128, 128, 128, 0, 3, 5>>,        \* overlong 0x43, memory 3, offset 5
      <<2, 255, 255, 255, 255, 15>>,          \* align 2, offset 2^32 - 1
      <<4, 7>>, <<68, 1, 9>> }                \* align 4

CatchAlphabet == {0, 1, 2, 3, 4, 5, 130}

CatchLongInputs ==
    { <<0, 255, 255, 255, 255, 15, 7>>,       \* catch 2^32 - 1, label 7
      <<3, 255, 255, 255, 255, 15>>,          \* catch_all_ref 2^32 - 1
      <<1, 128, 128, 128, 128, 16, 0>>,       \* exception index 2^32
      <<255, 0, 0>> }

\* a discriminant, then up to MaxBytes - 1 bytes
MemTypeTags == (0..16) \cup {255}

MemTypeAlphabet == {0, 1, 64, 65, 130}

MemTypeLongInputs ==
    { << >>,
      <<1, 255, 255, 255, 255, 15, 0>>,                          \* min 2^32 - 1
      <<0, 128, 128, 128, 128, 16>>,                             \* min 2^32
      <<4, 255, 255, 255, 255, 255, 255, 255, 255, 255, 1>>,     \* min 2^64 - 1
      <<4, 128, 128, 128, 128, 128, 128, 128, 128, 128, 2>>,     \* min 2^64
      <<15, 1, 2, 16>>, <<9, 1, 2, 128, 1>>, <<8, 0, 192, 0>> }  \* page sizes 16, 128, 64

ByteInputs(k) ==
    CASE k = "MemArg" -> BytesUpTo(MemArgAlphabet, MaxBytes) \cup MemArgLongInputs
      [] k \in AlignedKinds ->
           BytesUpTo(AlignedMemArgAlphabet, MaxBytes) \cup AlignedMemArgLongInputs
      [] k = "BlockType" -> BytesUpTo(BlockTypeAlphabet, MaxBytes) \cup BlockTypeLongInputs
      [] k = "Catch" -> BytesUpTo(CatchAlphabet, MaxBytes) \cup CatchLongInputs
      [] k = "MemType" ->
           {<<t>> \o b : t \in MemTypeTags, b \in BytesUpTo(MemTypeAlphabet, MaxBytes - 1)}
           \cup MemTypeLongInputs
      [] k = "Expression" ->
           BytesUpTo(ExpressionAlphabet, MaxBytes) \cup ExpressionLongInputs

MemArgValues ==
    { MemArg(a, m, o) :
        a \in {<< >>, <<2>>, <<64>>, <<66>>, <<64, 1>>, U32Max},
        m \in {<< >>, <<3>>, <<0, 1>>},
        o \in {<< >>, <<1>>, <<64>>, U32Max} }

BlockTypeValues ==
    {BlockTypeEmpty}
    \cup {BlockTypeValue(ty) : ty \in ValueTypes}
    \cup {BlockTypeMultiValue(i) :
            i \in {<< >>, <<1>>, <<63>>, <<64>>, <<105>>, <<111>>, <<112>>, <<123>>,
                   <<127>>, <<0, 1>>, <<64, 1>>, Pow31Minus1, Pow31, U32Max}}

InstructionValues ==
    { WithBlockType(OP_CODE_BLOCK_START, BlockTypeEmpty),
      WithBlockType(OP_CODE_LOOP_START, BlockTypeValue("I32")),
      WithBlockType(OP_CODE_IF_START, BlockTypeMultiValue(<<0, 1>>)),
      End,
      Plain(1),
      WithMemArg(40, MemArg(<<2>>, <<3>>, << >>)),
      WithMemArg(40, MemArg(<<2>>, << >>, << >>)) }
    \cup (IF "threads" \in features
          THEN {Atomic(254, 24, AlignedMemArg(<<3>>, <<1>>))}
          ELSE {})
    \cup (IF "exception-handling" \in features
          THEN { TryTable(BlockTypeEmpty, << >>, << >>),
                 TryTable(BlockTypeEmpty, <<Catch(TRUE, None, << >>)>>, <<End>>),
                 TryTable(BlockTypeEmpty, <<Catch(FALSE, Some(<<1>>), <<2>>)>>,
                          <<WithBlockType(OP_CODE_BLOCK_START, BlockTypeEmpty), End>>) }
          ELSE {})

AlignedMemArgValues ==
    { AlignedMemArg(m, o) :
        m \in {<< >>, <<3>>, <<64>>, <<0, 1>>, U32Max},
        o \in {<< >>, <<1>>, <<64>>, <<0, 1>>, U32Max} }

CatchValues ==
    { Catch(catch_ref, exception_filter, target) :
        catch_ref \in BOOLEAN,
        exception_filter \in {None} \cup {Some(e) : e \in {<< >>, <<1>>, <<2>>, <<0, 1>>, U32Max}},
        target \in {<< >>, <<1>>, <<3>>, <<0, 1>>, U32Max} }

\* a field a feature adds is absent (here: false, None) without the feature
MemTypeValues ==
    { MemType(page_size, is_mem64, is_shared, Limits(min, max)) :
        page_size \in {None} \cup (IF "custom-page-sizes" \in features
                                   THEN {Some(<< >>), Some(<<16>>), Some(<<64>>)} ELSE {}),
        is_mem64 \in {FALSE} \cup (IF "memory64" \in features THEN {TRUE} ELSE {}),
        is_shared \in {FALSE} \cup (IF "threads" \in features THEN {TRUE} ELSE {}),
        min \in {<< >>, <<1>>, <<0, 1>>, U32Max},
        max \in {None, Some(<< >>), Some(<<2>>), Some(U32Max)} }

ValueInputs(k) ==
    CASE k = "MemArg" -> MemArgValues
      [] k \in AlignedKinds -> AlignedMemArgValues
      [] k = "BlockType" -> BlockTypeValues
      [] k = "Catch" -> CatchValues
      [] k = "MemType" -> MemTypeValues
      [] k = "Expression" -> ListsUpTo(InstructionValues, MaxInstrs)

(***************************************************************************)
(* The state machine: an input is decoded, the value encoded, and the      *)
(* output decoded back (the order of run_test); a value built in memory    *)
(* (origin "value") is held like a decoded one and starts at the encode.   *)
(***************************************************************************)
NoResult ==
    [ok |-> FALSE, value |-> NoValue, rest |-> << >>, minimal |-> FALSE, err |-> NoError]

NoOutput == [ok |-> FALSE, sink |-> << >>, err |-> ""]

NoModule == << >>

NoOperation == [op |-> "", index |-> 0, ok |-> FALSE, variant |-> "", err |-> NoError,
                sink |-> << >>, parts |-> << >>]

Init ==
    /\ profile = "debug"
    /\ entered = DepthTrackerDefault
    /\ module = NoModule
    /\ history = << >>
    /\ result = NoOperation
    /\ kind \in Kinds
    /\ features \in BuildsOf(kind)
    /\ pc = "start"
    /\ out = NoOutput
    /\ back = NoResult
    /\ \/ /\ origin = "bytes"
          /\ src \in ByteInputs(kind)
          /\ val = NoResult
       \/ /\ origin = "value"
          /\ src = << >>
          /\ val \in {DecOk(v, << >>, TRUE) : v \in ValueInputs(kind)}

\* a decoder is applied at the first step to the input, at the last step to
\* the encoder's output
DecodeInput(k) == kind = k /\ pc = "start" /\ origin = "bytes"

DecodeOutput(k) == kind = k /\ pc = "encoded" /\ out.ok

ReadyToEncode(k) ==
    /\ kind = k
    /\ \/ pc = "decoded" /\ val.ok
       \/ pc = "start" /\ origin = "value"

DecodeMemArgStep ==
    /\ \/ /\ DecodeInput("MemArg")
          /\ val' = DecodeMemArg(src)
          /\ pc' = "decoded"
          /\ UNCHANGED back
       \/ /\ DecodeOutput("MemArg")
          /\ back' = DecodeMemArg(out.sink)
          /\ pc' = "redecoded"
          /\ UNCHANGED val
    /\ UNCHANGED <<features, kind, origin, src, out>>
    /\ UNCHANGED <<lazyvars, runvars>>

EncodeMemArgStep ==
    /\ ReadyToEncode("MemArg")
    /\ out' = EncOk(EncodeMemArg(val.value))
    /\ pc' = "encoded"
    /\ UNCHANGED <<features, kind, origin, src, val, back>>
    /\ UNCHANGED <<lazyvars, runvars>>

DecodeAlignedMemArgStep ==
    /\ \E k \in AlignedKinds :
          \/ /\ DecodeInput(k)
             /\ val' = DecodeAlignedMemArg(AlignOf(k), src)
             /\ pc' = "decoded"
             /\ UNCHANGED back
          \/ /\ DecodeOutput(k)
             /\ back' = DecodeAlignedMemArg(AlignOf(k), out.sink)
             /\ pc' = "redecoded"
             /\ UNCHANGED val
    /\ UNCHANGED <<features, kind, origin, src, out>>
    /\ UNCHANGED <<lazyvars, runvars>>

EncodeAlignedMemArgStep ==
    /\ \E k \in AlignedKinds :
          /\ ReadyToEncode(k)
          /\ out' = EncOk(EncodeAlignedMemArg(AlignOf(k), val.value))
    /\ pc' = "encoded"
    /\ UNCHANGED <<features, kind, origin, src, val, back>>
    /\ UNCHANGED <<lazyvars, runvars>>

DecodeBlockTypeStep ==
    /\ \/ /\ DecodeInput("BlockType")
          /\ val' = DecodeBlockType(src)
          /\ pc' = "decoded"
          /\ UNCHANGED back
       \/ /\ DecodeOutput("BlockType")
          /\ back' = DecodeBlockType(out.sink)
          /\ pc' = "redecoded"
          /\ UNCHANGED val
    /\ UNCHANGED <<features, kind, origin, src, out>>
    /\ UNCHANGED <<lazyvars, runvars>>

EncodeBlockTypeStep ==
    /\ ReadyToEncode("BlockType")
    /\ out' = EncOk(EncodeBlockType(val.value))
    /\ pc' = "encoded"
    /\ UNCHANGED <<features, kind, origin, src, val, back>>
    /\ UNCHANGED <<lazyvars, runvars>>

DecodeCatchStep ==
    /\ \/ /\ DecodeInput("Catch")
          /\ val' = DecodeCatch(src)
          /\ pc' = "decoded"
          /\ UNCHANGED back
       \/ /\ DecodeOutput("Catch")
          /\ back' = DecodeCatch(out.sink)
          /\ pc' = "redecoded"
          /\ UNCHANGED val
    /\ UNCHANGED <<features, kind, origin, src, out>>
    /\ UNCHANGED <<lazyvars, runvars>>

EncodeCatchStep ==
    /\ ReadyToEncode("Catch")
    /\ out' = EncOk(EncodeCatch(val.value))
    /\ pc' = "encoded"
    /\ UNCHANGED <<features, kind, origin, src, val, back>>
    /\ UNCHANGED <<lazyvars, runvars>>

DecodeMemTypeStep ==
    /\ \/ /\ DecodeInput("MemType")
          /\ val' = DecodeMemType(src)
          /\ pc' = "decoded"
          /\ UNCHANGED back
       \/ /\ DecodeOutput("MemType")
          /\ back' = DecodeMemType(out.sink)
          /\ pc' = "redecoded"
          /\ UNCHANGED val
    /\ UNCHANGED <<features, kind, origin, src, out>>
    /\ UNCHANGED <<lazyvars, runvars>>

EncodeMemTypeStep ==
    /\ ReadyToEncode("MemType")
    /\ out' = EncOk(EncodeMemType(val.value))
    /\ pc' = "encoded"
    /\ UNCHANGED <<features, kind, origin, src, val, back>>
    /\ UNCHANGED <<lazyvars, runvars>>

DecodeExpressionStep ==
    /\ \/ /\ DecodeInput("Expression")
          /\ val' = DecodeExpression(src)
          /\ pc' = "decoded"
          /\ UNCHANGED back
       \/ /\ DecodeOutput("Expression")
          /\ back' = DecodeExpression(out.sink)
          /\ pc' = "redecoded"
          /\ UNCHANGED val
    /\ UNCHANGED <<features, kind, origin, src, out>>
    /\ UNCHANGED <<lazyvars, runvars>>

EncodeExpressionStep ==
    /\ ReadyToEncode("Expression")
    /\ out' = EncodeExpression(val.value)
    /\ pc' = "encoded"
    /\ UNCHANGED <<features, kind, origin, src, val, back>>
    /\ UNCHANGED <<lazyvars, runvars>>

Next ==
    \/ DecodeMemArgStep
    \/ EncodeMemArgStep
    \/ DecodeAlignedMemArgStep
    \/ EncodeAlignedMemArgStep
    \/ DecodeBlockTypeStep
    \/ EncodeBlockTypeStep
    \/ DecodeCatchStep
    \/ EncodeCatchStep
    \/ DecodeMemTypeStep
    \/ EncodeMemTypeStep
    \/ DecodeExpressionStep
    \/ EncodeExpressionStep

Spec == Init /\ [][Next]_vars

\* no input of the model reaches a variant the model leaves out
WithinModel ==
    /\ val.err.cause # "OutOfModel"
    /\ back.err.cause # "OutOfModel"

(***************************************************************************)
(* The instruction loops resumed behind a stream that left structured      *)
(* starts open: the tracker holds their number, the list holds what the    *)
(* loop has pushed since.                                                  *)
(***************************************************************************)
U32MaxMinus1 == <<126, 127, 127, 127, 15>>

EnteredDepths == {<< >>, <<1>>, <<2>>, U32MaxMinus1, U32Max}

ResumeAlphabet == {1, 2, 11, 64}

ResumeValues ==
    { WithBlockType(OP_CODE_BLOCK_START, BlockTypeEmpty),
      WithBlockType(OP_CODE_LOOP_START, BlockTypeEmpty),
      End,
      Plain(1) }

DepthInit ==
    /\ profile \in {"debug", "release"}
    /\ entered \in EnteredDepths
    /\ features = {}
    /\ kind = "Expression"
    /\ pc = "start"
    /\ out = NoOutput
    /\ back = NoResult
    /\ module = NoModule
    /\ history = << >>
    /\ result = NoOperation
    /\ \/ /\ origin = "bytes"
          /\ src \in BytesUpTo(ResumeAlphabet, MaxBytes)
          /\ val = NoResult
       \/ /\ origin = "value"
          /\ src = << >>
          /\ val \in {DecOk(v, << >>, TRUE) : v \in ListsUpTo(ResumeValues, MaxInstrs)}

ResumeDecodeStep ==
    /\ DecodeInput("Expression")
    /\ val' = DecodeInstrLoop(src, << >>, entered, TRUE)
    /\ pc' = "decoded"
    /\ UNCHANGED <<features, kind, origin, src, out, back>>
    /\ UNCHANGED <<lazyvars, runvars>>

ResumeEncodeStep ==
    /\ ReadyToEncode("Expression")
    /\ out' = EncodeInstrLoop(val.value, 1, entered, << >>)
    /\ pc' = "encoded"
    /\ UNCHANGED <<features, kind, origin, src, val, back>>
    /\ UNCHANGED <<lazyvars, runvars>>

DepthNext ==
    \/ ResumeDecodeStep
    \/ ResumeEncodeStep

DepthSpec == DepthInit /\ [][DepthNext]_vars

(***************************************************************************)
(* PageSize: new, decode and size.                                         *)
(***************************************************************************)
\* a u64 in digits
FitsU64(d) == Len(d) < 10 \/ (Len(d) = 10 /\ d[10] < 2)

\* 2^exp, not reduced: bit exp is bit exp % 7 of digit exp \div 7
Pow(exp) ==
    [i \in 1..(exp \div 7) + 1 |-> IF i = (exp \div 7) + 1 THEN 2 ^ (exp % 7) ELSE 0]

\* the low 64 bits
WrapU64(d) == Norm([i \in 1..10 |-> IF i > Len(d) THEN 0 ELSE IF i = 10 THEN d[i] % 2 ELSE d[i]])

\* u64::pow(2, self.0): a product that leaves u64 panics where overflow is
\* checked and is reduced modulo 2^64 where it is not
size(self) ==
    IF FitsU64(Pow(Count(self))) THEN [panic |-> FALSE, value |-> Pow(Count(self))]
    ELSE [panic |-> profile = "debug", value |-> WrapU64(Pow(Count(self)))]

PageSizeAlphabet == {0, 16, 63, 64, 65, 128, 192}

PageSizeArguments ==
    {ToNum(x) : x \in 0..66} \cup {<<0, 1>>, <<64, 1>>, <<0, 0, 1>>, U32Max}

PageSizeInit ==
    /\ profile \in {"debug", "release"}
    /\ entered = DepthTrackerDefault
    /\ features = {"custom-page-sizes"}
    /\ kind = "PageSize"
    /\ pc = "start"
    /\ out = NoOutput
    /\ back = NoResult
    /\ module = NoModule
    /\ history = << >>
    /\ result = NoOperation
    /\ \/ /\ origin = "bytes"
          /\ src \in BytesUpTo(PageSizeAlphabet, MaxBytes)
          /\ val = NoResult
       \/ /\ origin = "value"
          /\ src \in PageSizeArguments
          /\ val = NoResult

\* PageSize::new(src): val holds the Option, ok for Some
PageSizeNewStep ==
    /\ kind = "PageSize" /\ origin = "value" /\ pc = "start"
    /\ val' = IF PageSizeNew(src).some THEN DecOk(PageSizeNew(src).id, << >>, TRUE)
              ELSE DecErr(DecodeError("None"))
    /\ pc' = "decoded"
    /\ UNCHANGED <<features, kind, origin, src, out, back>>
    /\ UNCHANGED <<lazyvars, runvars>>

DecodePageSizeStep ==
    /\ DecodeInput("PageSize")
    /\ val' = DecodePageSize(src)
    /\ pc' = "decoded"
    /\ UNCHANGED <<features, kind, origin, src, out, back>>
    /\ UNCHANGED <<lazyvars, runvars>>

\* size() of the PageSize obtained: out holds the u64 returned, in digits
PageSizeSizeStep ==
    /\ kind = "PageSize" /\ pc = "decoded" /\ val.ok
    /\ out' = IF size(val.value).panic THEN EncErr(<< >>, "attempt to multiply with overflow")
              ELSE EncOk(size(val.value).value)
    /\ pc' = "sized"
    /\ UNCHANGED <<features, kind, origin, src, val, back>>
    /\ UNCHANGED <<lazyvars, runvars>>

PageSizeNext ==
    \/ PageSizeNewStep
    \/ DecodePageSizeStep
    \/ PageSizeSizeStep

PageSizeSpec == PageSizeInit /\ [][PageSizeNext]_vars

(***************************************************************************)
(* Lazy sections, the module skeleton and the visitor, with MemType as the  *)
(* section body.                                                            *)
(***************************************************************************)
\* a lazy body: the raw payload, the decoded value, or both
Lazy(raw, value) == [raw |-> raw, value |-> value]

LazyFromInput(raw) == Lazy(Some(raw), None)

LazyFromValue(value) == Lazy(None, Some(value))

\* the payload must be the body and nothing else
WholePayload(res) ==
    IF ~res.ok THEN res
    ELSE IF res.rest # << >> THEN DecErr(DecodeError("UnrecognizedData"))
    ELSE res

DecodeRaw(raw) == WholePayload(DecodeMemType(raw))

\* peek raw bytes
try_as_raw(self) ==
    IF self.raw.some THEN EncOk(self.raw.id) ELSE EncErr(<< >>, "NoRaw")

\* force decode / borrow decoded: the decoded value, decoding a payload not decoded yet
try_contents(self) ==
    IF self.value.some THEN DecOk(self.value.id, << >>, TRUE) ELSE DecodeRaw(self.raw.id)

Borrowed_RawDropped(self, contents) == Lazy(None, Some(contents))

\* the body after a borrow that returned contents: raw and decoded, both
Borrowed(self, contents) == Lazy(self.raw, Some(contents))

\* the body after a mutable borrow returned contents: the raw buffer is dropped
BorrowedMut_RawKept(self, contents) == Lazy(self.raw, Some(contents))

BorrowedMut(self, contents) == Lazy(None, Some(contents))

LengthPrefixed(bytes) == EncodeUnsigned(ToNum(Len(bytes))) \o bytes

\* encode: the raw bytes while they are there, else the decoded value again
EncodeLazy(self) ==
    IF self.raw.some THEN LengthPrefixed(self.raw.id)
    ELSE LengthPrefixed(EncodeMemType(self.value.id))

SECTION_ID_MEMORY == 5

EncodeSection(self) == <<SECTION_ID_MEMORY>> \o EncodeLazy(self)

EncodeSections(m) == [i \in DOMAIN m |-> EncodeSection(m[i])]

RECURSIVE Concat(_, _)
Concat(parts, i) == IF i > Len(parts) THEN << >> ELSE parts[i] \o Concat(parts, i + 1)

\* magic \0asm, version 1
ModuleHeader == <<0, 97, 115, 109, 1, 0, 0, 0>>

EncodeModule(m) == ModuleHeader \o Concat(EncodeSections(m), 1)

\* a visit: the module it leaves, how it ended, how many sections it lent out
Visited(m, ok, variant, err, lent) ==
    [module |-> m, ok |-> ok, variant |-> variant, err |-> err, lent |-> lent]

Callbacks == {"noop", "failing"}

RECURSIVE visit_mut(_, _, _)
visit_mut_Custom(m, i, callback, contents) ==
    IF ~contents.ok THEN Visited(m, FALSE, "Custom", contents.err, i - 1)
    ELSE IF callback = "failing"
    THEN Visited([m EXCEPT ![i] = BorrowedMut(m[i], contents.value)], FALSE, "Custom",
                 NoError, i)
    ELSE visit_mut([m EXCEPT ![i] = BorrowedMut(m[i], contents.value)], i + 1, callback)

visit_mut_ReadOnly(m, i, callback, contents) ==
    IF ~contents.ok THEN Visited(m, FALSE, "LazyDecode", contents.err, i - 1)
    ELSE IF callback = "failing"
    THEN Visited([m EXCEPT ![i] = Borrowed(m[i], contents.value)], FALSE, "Custom",
                 NoError, i)
    ELSE visit_mut([m EXCEPT ![i] = Borrowed(m[i], contents.value)], i + 1, callback)

visit_mut_section(m, i, callback, contents) ==
    IF ~contents.ok THEN Visited(m, FALSE, "LazyDecode", contents.err, i - 1)
    ELSE IF callback = "failing"
    THEN Visited([m EXCEPT ![i] = BorrowedMut(m[i], contents.value)], FALSE, "Custom",
                 NoError, i)
    ELSE visit_mut([m EXCEPT ![i] = BorrowedMut(m[i], contents.value)], i + 1, callback)

visit_mut(m, i, callback) ==
    IF i > Len(m) THEN Visited(m, TRUE, "", NoError, Len(m))
    ELSE visit_mut_section(m, i, callback, try_contents(m[i]))

RECURSIVE visit(_, _, _)
visit_section(m, i, callback, contents) ==
    IF ~contents.ok THEN Visited(m, FALSE, "LazyDecode", contents.err, 0)
    ELSE IF callback = "failing"
    THEN Visited([m EXCEPT ![i] = Borrowed(m[i], contents.value)], FALSE, "Custom",
                 NoError, 0)
    ELSE visit([m EXCEPT ![i] = Borrowed(m[i], contents.value)], i + 1, callback)

visit(m, i, callback) ==
    IF i > Len(m) THEN Visited(m, TRUE, "", NoError, 0)
    ELSE visit_section(m, i, callback, try_contents(m[i]))

\* what a caller writes through a mutable borrow: nothing, or another minimum
Writes(contents) == {contents, [contents EXCEPT !.limits.min = <<2>>]}

LazyPayloads ==
    { <<0, 1>>,            \* min 1
      <<0, 129, 0>>,       \* min 1, overlong
      <<0>>,               \* ends before min
      <<0, 1, 0>>,         \* a byte too many
      <<2, 1>> }           \* shared: not in a build without threads

LazyValues == {MemType(None, FALSE, FALSE, Limits(<<1>>, Some(<<3>>)))}

LazyBodies ==
    {LazyFromInput(raw) : raw \in LazyPayloads} \cup {LazyFromValue(v) : v \in LazyValues}

Modules == UNION {[1..n -> LazyBodies] : n \in 0..MaxSections}

Operation(op, index, ok, variant, err, sink, parts) ==
    [op |-> op, index |-> index, ok |-> ok, variant |-> variant, err |-> err,
     sink |-> sink, parts |-> parts]

\* decode_module leaves every payload raw; a caller may also build bodies from values
LazyInit ==
    /\ profile = "debug"
    /\ entered = DepthTrackerDefault
    /\ features = {}
    /\ kind = "MemType"
    /\ origin = "bytes"
    /\ pc = "start"
    /\ src = << >>
    /\ val = NoResult
    /\ out = NoOutput
    /\ back = NoResult
    /\ module \in Modules
    /\ history = [i \in DOMAIN module |-> [origin |-> module[i].raw, lent |-> FALSE]]
    /\ result = NoOperation

RawStep ==
    /\ \E i \in DOMAIN module :
          result' = Operation("raw", i, try_as_raw(module[i]).ok, "", NoError,
                              try_as_raw(module[i]).sink, << >>)
    /\ UNCHANGED <<module, history>>
    /\ UNCHANGED <<codecvars, runvars>>

DecodedStep ==
    /\ \E i \in DOMAIN module :
          /\ result' = Operation("decoded", i, try_contents(module[i]).ok, "",
                                 try_contents(module[i]).err, << >>, << >>)
          /\ module' = IF try_contents(module[i]).ok
                       THEN [module EXCEPT ![i] = Borrowed(@, try_contents(module[i]).value)]
                       ELSE module
    /\ UNCHANGED history
    /\ UNCHANGED <<codecvars, runvars>>

DecodedMutStep ==
    /\ \E i \in DOMAIN module :
          /\ result' = Operation("decoded_mut", i, try_contents(module[i]).ok, "",
                                 try_contents(module[i]).err, << >>, << >>)
          /\ \/ /\ ~try_contents(module[i]).ok
                /\ UNCHANGED <<module, history>>
             \/ /\ try_contents(module[i]).ok
                /\ \E written \in Writes(try_contents(module[i]).value) :
                      module' = [module EXCEPT ![i] = BorrowedMut(@, written)]
                /\ history' = [history EXCEPT ![i].lent = TRUE]
    /\ UNCHANGED <<codecvars, runvars>>

EncodeModuleStep ==
    /\ result' = Operation("encode", 0, TRUE, "", NoError, EncodeModule(module),
                           EncodeSections(module))
    /\ UNCHANGED <<module, history>>
    /\ UNCHANGED <<codecvars, runvars>>

VisitStep ==
    /\ \E callback \in Callbacks :
          /\ result' = Operation("visit:" \o callback, 0, visit(module, 1, callback).ok,
                                 visit(module, 1, callback).variant,
                                 visit(module, 1, callback).err, << >>, << >>)
          /\ module' = visit(module, 1, callback).module
    /\ UNCHANGED history
    /\ UNCHANGED <<codecvars, runvars>>

VisitMutStep ==
    /\ \E callback \in Callbacks :
          /\ result' = Operation("visit_mut:" \o callback, 0,
                                 visit_mut(module, 1, callback).ok,
                                 visit_mut(module, 1, callback).variant,
                                 visit_mut(module, 1, callback).err, << >>, << >>)
          /\ module' = visit_mut(module, 1, callback).module
          /\ history' = [i \in DOMAIN history |->
                           [history[i] EXCEPT
                              !.lent = @ \/ i <= visit_mut(module, 1, callback).lent]]
    /\ UNCHANGED <<codecvars, runvars>>

LazyNext ==
    \/ RawStep
    \/ DecodedStep
    \/ DecodedMutStep
    \/ EncodeModuleStep
    \/ VisitStep
    \/ VisitMutStep

LazySpec == LazyInit /\ [][LazyNext]_vars

(***************************************************************************)
(* Notions the properties are stated in.                                   *)
(***************************************************************************)
\* the bytes of the input the first decode consumed
Consumed == SubSeq(src, 1, Len(src) - Len(val.rest))

Starts(list, k) == Cardinality({i \in 1..k : list[i].op \in StartOps})
Ends(list, k) == Cardinality({i \in 1..k : list[i].op = OP_CODE_END})

\* no prefix has more Ends than starts, and the totals are equal
Balanced(list) ==
    /\ \A k \in 0..Len(list) : Ends(list, k) <= Starts(list, k)
    /\ Ends(list, Len(list)) = Starts(list, Len(list))

\* the list is balanced, and so is every list nested in a TryTable of it
RECURSIVE BalancedThroughout(_)
BalancedThroughout(list) ==
    /\ Balanced(list)
    /\ \A i \in 1..Len(list) :
          list[i].op = OP_CODE_TRY_TABLE => BalancedThroughout(list[i].instructions)

\* the wire forms of the instructions of a list, in list order
RECURSIVE WireForms(_)
WireForms(list) ==
    IF list = << >> THEN << >>
    ELSE EncodeInstruction(Head(list)).sink \o WireForms(Tail(list))

\* the MemArg immediates of a list
MemArgsOf(list) == {list[i].arg : i \in {j \in 1..Len(list) : list[j].op \in MemArgOps}}

(***************************************************************************)
(* C1. Roundtrip B (tolerant): whenever an input decodes to a value, the   *)
(* value encodes, and decoding the output gives the same value back with   *)
(* nothing left over, also when the input held overlong LEB128 integers.   *)
(***************************************************************************)
C1_RoundtripTolerant ==
    origin = "bytes" =>
        /\ pc = "encoded" => out.ok
        /\ pc = "redecoded" => back.ok /\ back.value = val.value /\ back.rest = << >>

C1_Witness ==
    /\ origin = "bytes"
    /\ kind = "Expression"
    /\ pc = "redecoded"
    /\ ~val.minimal
    /\ val.value # << >>
    /\ back.value = val.value

(***************************************************************************)
(* C2. Roundtrip A (strict): whenever an input that uses minimal LEB128    *)
(* throughout decodes to a value, encoding the value gives back exactly    *)
(* the bytes that were decoded.                                            *)
(***************************************************************************)
C2_RoundtripStrict ==
    (origin = "bytes" /\ pc = "encoded" /\ val.minimal) =>
        out.ok /\ out.sink = Consumed

(***************************************************************************)
(* C3. Depth balance.  As claimed: encoding an instruction list succeeds   *)
(* iff the list is balanced, and fails with the depth error otherwise.     *)
(***************************************************************************)
C3_DepthBalanceFlat ==
    (kind = "Expression" /\ pc = "encoded") =>
        /\ out.ok <=> Balanced(val.value)
        /\ ~out.ok => out.err = "DepthError"

(***************************************************************************)
(* C3, amended: encoding an instruction list succeeds iff the list and     *)
(* every instruction list nested in a TryTable of it are balanced, and     *)
(* fails with the depth error otherwise.                                   *)
(***************************************************************************)
C3_DepthBalance ==
    (kind = "Expression" /\ pc = "encoded") =>
        /\ out.ok <=> BalancedThroughout(val.value)
        /\ ~out.ok => out.err = "DepthError"

C3_Witness ==
    /\ kind = "Expression"
    /\ pc = "encoded"
    /\ val.value = <<WithBlockType(OP_CODE_BLOCK_START, BlockTypeEmpty), End, End>>
    /\ ~out.ok
    /\ out.err = "DepthError"

(***************************************************************************)
(* C4. A successful encode of an instruction list emits the wire forms of  *)
(* its instructions in list order and then exactly one End byte more;      *)
(* [BlockStart(Empty), End] gives 02 40 0B 0B and the empty list 0B.       *)
(***************************************************************************)
C4_TrailingEnd ==
    (kind = "Expression" /\ pc = "encoded" /\ out.ok) =>
        /\ out.sink = Append(WireForms(val.value), OP_CODE_END)
        /\ val.value = << >> => out.sink = <<11>>
        /\ val.value = <<WithBlockType(OP_CODE_BLOCK_START, BlockTypeEmpty), End>>
               => out.sink = <<2, 64, 11, 11>>

C4_Witness ==
    /\ kind = "Expression"
    /\ pc = "encoded"
    /\ val.value = <<WithBlockType(OP_CODE_BLOCK_START, BlockTypeEmpty), End>>
    /\ out.ok
    /\ out.sink = <<2, 64, 11, 11>>

(***************************************************************************)
(* C5. Every successfully decoded Expression is balanced (the End that     *)
(* ends the decode at depth 0 is consumed, not pushed), so encoding a      *)
(* decoded Expression never fails.                                         *)
(***************************************************************************)
C5_DecodedBalanced ==
    (kind = "Expression" /\ origin = "bytes") =>
        /\ (pc = "decoded" /\ val.ok) =>
              /\ BalancedThroughout(val.value)
              /\ Consumed # << >> /\ Consumed[Len(Consumed)] = OP_CODE_END
        /\ pc = "encoded" => out.ok

C5_Witness ==
    /\ kind = "Expression"
    /\ origin = "bytes"
    /\ pc = "decoded"
    /\ src = <<2, 64, 2, 64, 11, 11, 11>>
    /\ val.ok
    /\ Len(val.value) = 4
    /\ val.value[4] = End

(***************************************************************************)
(* C6. MemArg encode: with a memory index other than 0 the output is the   *)
(* u32 align_log2 | 0x40, the memory index and the offset; with memory 0   *)
(* it is align_log2 and the offset, without a memory index.                *)
(***************************************************************************)
C6_MemArgEncode ==
    (kind = "MemArg" /\ origin = "value" /\ pc = "encoded") =>
        LET m == val.value
            first == DecodeU32(out.sink)
            second == DecodeU32(first.rest)
            third == DecodeU32(second.rest)
        IN /\ m.memory # << >> =>
                 /\ first.ok /\ first.minimal /\ first.value = SetFlag(m.align_log2)
                 /\ second.ok /\ second.minimal /\ second.value = m.memory
                 /\ third.ok /\ third.minimal /\ third.value = m.offset
                 /\ third.rest = << >>
           /\ m.memory = << >> =>
                 /\ first.ok /\ first.minimal /\ first.value = m.align_log2
                 /\ second.ok /\ second.minimal /\ second.value = m.offset
                 /\ second.rest = << >>
           /\ m = MemArg(<<2>>, <<3>>, << >>) => out.sink = <<66, 3, 0>>
           /\ m = MemArg(<<2>>, << >>, << >>) => out.sink = <<2, 0>>

C6_Witness ==
    /\ kind = "MemArg"
    /\ origin = "value"
    /\ pc = "encoded"
    /\ val.value = MemArg(<<2>>, <<3>>, << >>)
    /\ out.sink = <<66, 3, 0>>

(***************************************************************************)
(* C7. Every decoded MemArg has bit 6 of align_log2 clear: a wire align    *)
(* with the bit set is masked and followed by the memory index, one        *)
(* without it leaves memory 0 and reads no index; the offset is read last. *)
(***************************************************************************)
C7_FlagNeverSurfaces ==
    /\ (kind = "MemArg" /\ pc = "decoded" /\ val.ok) =>
          LET m == val.value
              first == DecodeU32(src)
              second == DecodeU32(first.rest)
              third == DecodeU32(second.rest)
          IN /\ ~HasFlag(m.align_log2)
             /\ HasFlag(first.value) =>
                   /\ SetFlag(m.align_log2) = first.value
                   /\ m.memory = second.value
                   /\ m.offset = third.value
                   /\ val.rest = third.rest
             /\ ~HasFlag(first.value) =>
                   /\ m.align_log2 = first.value
                   /\ m.memory = << >>
                   /\ m.offset = second.value
                   /\ val.rest = second.rest
    /\ (kind = "Expression" /\ pc = "decoded" /\ val.ok) =>
          \A m \in MemArgsOf(val.value) : ~HasFlag(m.align_log2)

C7_Witness ==
    /\ kind = "MemArg"
    /\ pc = "decoded"
    /\ src = <<66, 3, 0>>
    /\ val.ok
    /\ val.value = MemArg(<<2>>, <<3>>, << >>)

(***************************************************************************)
(* C8. Encoding is total and lossless for MemArg: every MemArg built in    *)
(* memory encodes, and decoding the output gives the same MemArg back,     *)
(* consuming exactly the encoded bytes.                                    *)
(***************************************************************************)
C8_MemArgLossless ==
    (kind = "MemArg" /\ origin = "value") =>
        /\ pc = "encoded" => out.ok
        /\ pc = "redecoded" => back.ok /\ back.value = val.value /\ back.rest = << >>

(***************************************************************************)
(* C9. BlockType decode decides from the first byte: 0x40 is Empty, a      *)
(* value-type discriminant is Value, and any other byte starts the signed  *)
(* LEB128 type index that is read from that byte on (80 01 is type 128).   *)
(* Every BlockType built in memory decodes back from its encoding.         *)
(***************************************************************************)
C9_BlockTypeDisambiguation ==
    kind = "BlockType" =>
        /\ (origin = "bytes" /\ pc = "decoded" /\ src # << >>) =>
              LET first == Head(src)
                  whole == DecodeI64(src)
              IN /\ first = 64 =>
                       val.ok /\ val.value = BlockTypeEmpty /\ val.rest = Tail(src)
                 /\ first \in {ValueTypeByte(ty) : ty \in ValueTypes} =>
                       /\ val.ok /\ val.value.tag = "Value"
                       /\ ValueTypeByte(val.value.ty) = first
                       /\ val.rest = Tail(src)
                 /\ (first # 64 /\ first \notin {ValueTypeByte(ty) : ty \in ValueTypes}
                         /\ val.ok) =>
                       /\ val.value.tag = "MultiValue"
                       /\ whole.ok
                       /\ I64FromU32(val.value.index) = whole.value
                       /\ val.rest = whole.rest
                 /\ src = <<128, 1>> => val.ok /\ val.value = BlockTypeMultiValue(<<0, 1>>)
        /\ (origin = "value" /\ pc = "encoded") =>
              Head(out.sink) = 64 <=> val.value = BlockTypeEmpty
        /\ (origin = "value" /\ pc = "redecoded") =>
              back.ok /\ back.value = val.value /\ back.rest = << >>

C9_Witness ==
    /\ kind = "BlockType"
    /\ origin = "bytes"
    /\ pc = "decoded"
    /\ src = <<128, 1>>
    /\ val.value = BlockTypeMultiValue(<<0, 1>>)

(***************************************************************************)
(* C10. As claimed: in the multi-value case the BlockType decoder fails    *)
(* whenever the signed LEB128 value read is negative or is 2^31 or more,   *)
(* and yields MultiValue only for 0 .. 2^31 - 1.                           *)
(***************************************************************************)
MultiValueCase ==
    /\ kind = "BlockType"
    /\ origin = "bytes"
    /\ pc = "decoded"
    /\ src # << >>
    /\ Head(src) # 64
    /\ Head(src) \notin {ValueTypeByte(ty) : ty \in ValueTypes}
    /\ DecodeI64(src).ok

C10_RejectsFromPow31 ==
    MultiValueCase =>
        LET read == DecodeI64(src).value
        IN val.ok <=> (~IsNegative(read) /\ BelowPow31(Norm(read)))

(***************************************************************************)
(* C10, amended: in the multi-value case the BlockType decoder fails       *)
(* whenever the signed LEB128 value read is negative or is 2^32 or more,   *)
(* and yields MultiValue (of that value) only for 0 .. 2^32 - 1.           *)
(***************************************************************************)
C10_RejectsFromPow32 ==
    MultiValueCase =>
        LET read == DecodeI64(src).value
        IN /\ val.ok <=> (~IsNegative(read) /\ FitsU32(Norm(read)))
           /\ val.ok => val.value = BlockTypeMultiValue(Norm(read))

C10_Witness ==
    /\ MultiValueCase
    /\ src = <<128, 128, 128, 128, 16>>
    /\ ~val.ok
    /\ val.err.cause = "IntegerOverflow"

(***************************************************************************)
(* C11. AlignedMemArg<N> encodes as the MemArg {align_log2: N, memory,     *)
(* offset}; its decode reads a MemArg and succeeds iff the align_log2 read *)
(* (the flag masked) is N, giving the memory and offset read; so every     *)
(* AlignedMemArg<N>, N in 0..3, decodes back from its encoding.            *)
(***************************************************************************)
C11_AlignedMemArg ==
    kind \in AlignedKinds =>
        LET N == ToNum(AlignOf(kind))
            read == DecodeMemArg(src)
            written == DecodeMemArg(out.sink)
        IN /\ pc = "encoded" =>
                 /\ out.ok
                 /\ out.sink = EncodeMemArg(MemArg(N, val.value.memory, val.value.offset))
                 /\ written.ok /\ written.rest = << >>
                 /\ written.value = MemArg(N, val.value.memory, val.value.offset)
           /\ (origin = "bytes" /\ pc = "decoded") =>
                 /\ val.ok <=> (read.ok /\ read.value.align_log2 = N)
                 /\ val.ok =>
                       /\ val.value = AlignedMemArg(read.value.memory, read.value.offset)
                       /\ val.rest = read.rest
           /\ (origin = "value" /\ pc = "redecoded") =>
                 back.ok /\ back.value = val.value /\ back.rest = << >>

C11_Witness ==
    /\ kind = "MemArg64"
    /\ origin = "value"
    /\ pc = "redecoded"
    /\ val.value = AlignedMemArg(<<3>>, <<1>>)
    /\ out.sink = <<67, 3, 1>>
    /\ back.value = val.value

(***************************************************************************)
(* C12. The four combinations of catch_ref and exception_filter are the    *)
(* four wire variants: (false, Some) is tag 0, (true, Some) tag 1,         *)
(* (false, None) tag 2, (true, None) tag 3; the exception index follows    *)
(* the tag only when there is a filter, then the target label.  A Catch    *)
(* without filter never encodes to tag 0 or 1, and every Catch decodes     *)
(* back from its encoding.                                                 *)
(***************************************************************************)
C12_CatchVariants ==
    kind = "Catch" =>
        LET TagOf(c) == (IF c.catch_ref THEN 1 ELSE 0)
                        + (IF c.exception_filter.some THEN 0 ELSE 2)
            Fields(c, bytes) ==
                LET first == DecodeU32(Tail(bytes))
                    second == DecodeU32(first.rest)
                IN /\ first.ok
                   /\ c.exception_filter.some =>
                         /\ first.value = c.exception_filter.id
                         /\ second.ok /\ second.value = c.target
                   /\ ~c.exception_filter.some => first.value = c.target
        IN /\ (origin = "value" /\ pc = "encoded") =>
                 /\ out.ok
                 /\ Head(out.sink) = TagOf(val.value)
                 /\ ~val.value.exception_filter.some => Head(out.sink) \notin {0, 1}
                 /\ Fields(val.value, out.sink)
                 /\ DecodeCatch(out.sink).rest = << >>
           /\ (origin = "bytes" /\ pc = "decoded" /\ src # << >>) =>
                 /\ val.ok => Head(src) = TagOf(val.value) /\ Fields(val.value, src)
                 /\ Head(src) \notin 0..3 =>
                       ~val.ok /\ val.err.cause = "UnsupportedDiscriminant"
           /\ (origin = "value" /\ pc = "redecoded") =>
                 back.ok /\ back.value = val.value /\ back.rest = << >>

C12_Witness ==
    /\ kind = "Catch"
    /\ origin = "value"
    /\ pc = "redecoded"
    /\ val.value = Catch(TRUE, None, <<3>>)
    /\ out.sink = <<3, 3>>
    /\ back.value = val.value

\* C13: a memory type is written as the tag byte hasMax*1 + is_shared*2 +
\* is_mem64*4 + hasPageSize*8, then min, then max when present, then
\* page_size when present (with every flag false: the Limits encoding 0x00 min
\* / 0x01 min max); every memory type the build can express has exactly one
\* variant, and decoding what was written gives the memory type back.
Bit(b) == IF b THEN 1 ELSE 0

C13_MemTypeTagMatrix ==
    (kind = "MemType" /\ pc \in {"encoded", "redecoded"}) =>
        /\ Cardinality(VariantsOf(val.value)) = 1
        /\ out.sink =
              << Bit(val.value.limits.max.some) + 2 * Bit(val.value.is_shared)
                 + 4 * Bit(val.value.is_mem64) + 8 * Bit(val.value.page_size.some) >>
              \o EncodeUnsigned(val.value.limits.min)
              \o (IF val.value.limits.max.some
                  THEN EncodeUnsigned(val.value.limits.max.id) ELSE << >>)
              \o (IF val.value.page_size.some
                  THEN EncodeUnsigned(val.value.page_size.id) ELSE << >>)
        /\ out.sink[1] \in 0..15
        /\ pc = "redecoded" => (back.ok /\ back.value = val.value /\ back.rest = << >>)

C13_Witness ==
    /\ kind = "MemType"
    /\ origin = "value"
    /\ pc = "redecoded"
    /\ features = {"threads", "memory64", "custom-page-sizes"}
    /\ val.value = MemType(Some(<<16>>), TRUE, TRUE, Limits(<<1>>, Some(<<2>>)))
    /\ out.sink = <<15, 1, 2, 16>>
    /\ back.value = val.value

\* C14: a section that holds a decoded value keeps one; a section lent
\* mutably has no raw buffer, ever after; and an encode writes, for such a
\* section, the length-prefixed encoding of its current decoded value.
C14_LazyMonotone ==
    /\ [][\A i \in DOMAIN module : module[i].value.some => module'[i].value.some]_vars
    /\ [](\A i \in DOMAIN module :
            history[i].lent => (~module[i].raw.some /\ module[i].value.some))
    /\ [](result.op = "encode" =>
            \A i \in DOMAIN module :
               history[i].lent =>
                  result.parts[i] =
                     <<SECTION_ID_MEMORY>>
                     \o LengthPrefixed(EncodeMemType(module[i].value.id)))

C14_Witness ==
    /\ Len(module) >= 1
    /\ history[1].origin = Some(<<0, 129, 0>>)
    /\ history[1].lent
    /\ module[1].value.id.limits.min = <<2>>
    /\ result.op = "encode"
    /\ result.parts[1] = <<5, 2, 0, 2>>

\* C15: an encode writes, for a section read from a payload and never lent
\* mutably, that payload as it was read, whatever was peeked, decoded or
\* borrowed before, overlong LEB128 included.
C15_RawVerbatim ==
    result.op = "encode" =>
        \A i \in DOMAIN module :
           (history[i].origin.some /\ ~history[i].lent) =>
              result.parts[i] =
                 <<SECTION_ID_MEMORY>> \o EncodeUnsigned(ToNum(Len(history[i].origin.id)))
                 \o history[i].origin.id

C15_Witness ==
    /\ Len(module) >= 1
    /\ history[1].origin = Some(<<0, 129, 0>>)
    /\ ~history[1].lent
    /\ module[1].value.some
    /\ result.op = "encode"
    /\ result.parts[1] = <<5, 3, 0, 129, 0>>

\* C16, as stated: after a visit_mut with a callback that does nothing has
\* succeeded, every section is decoded and the module encodes to the bytes
\* it encoded to before the visit.
C16_VisitorByteIdentical ==
    [][(result'.op = "visit_mut:noop" /\ result'.ok) =>
          /\ \A i \in DOMAIN module : module'[i].value.some
          /\ EncodeModule(module') = EncodeModule(module)]_vars

\* C16, amended: after such a visit every section is decoded and holds no raw
\* buffer, so each is encoded from its decoded value; a section's bytes are
\* those of before the visit exactly when it held no raw payload or its raw
\* payload was the encoding of its value (no overlong LEB128).
C16_VisitorMaterializes ==
    [][(result'.op = "visit_mut:noop" /\ result'.ok) =>
          \A i \in DOMAIN module :
             /\ module'[i].value.some
             /\ ~module'[i].raw.some
             /\ EncodeSection(module'[i]) =
                   <<SECTION_ID_MEMORY>>
                   \o LengthPrefixed(EncodeMemType(module'[i].value.id))
             /\ (EncodeSection(module'[i]) = EncodeSection(module[i]))
                   <=> (module[i].raw.some =>
                           module[i].raw.id = EncodeMemType(module'[i].value.id))]_vars

C16_Witness ==
    /\ result.op = "visit_mut:noop"
    /\ result.ok
    /\ Len(module) = 2
    /\ history[1].origin = Some(<<0, 129, 0>>)
    /\ history[2].origin = Some(<<0, 1>>)
    /\ module[1] = LazyFromValue(MemType(None, FALSE, FALSE, Limits(<<1>>, None)))
    /\ module[2] = module[1]

\* C17: a visit_mut fails with the LazyDecode variant carrying the decode
\* error of the first section whose payload does not decode, whenever the
\* visit gets to it; with a callback that cannot fail it succeeds exactly when
\* every section decodes, and never fails with Custom.
Undecodable(m) == {i \in DOMAIN m : ~try_contents(m[i]).ok}

FirstUndecodable(m) == CHOOSE i \in Undecodable(m) : \A j \in Undecodable(m) : i <= j

C17_LazyDecodeSurfaced ==
    [][/\ result'.op = "visit_mut:noop" =>
             /\ result'.ok <=> Undecodable(module) = {}
             /\ ~result'.ok =>
                   /\ result'.variant = "LazyDecode"
                   /\ result'.err = try_contents(module[FirstUndecodable(module)]).err
       /\ result'.op = "visit_mut:failing" =>
             /\ ~result'.ok \/ module = << >>
             /\ 1 \in Undecodable(module) =>
                   /\ result'.variant = "LazyDecode"
                   /\ result'.err = try_contents(module[1]).err
             /\ (module # << >> /\ 1 \notin Undecodable(module)) =>
                   result'.variant = "Custom"]_vars

C17_Witness ==
    /\ result.op = "visit_mut:noop"
    /\ ~result.ok
    /\ result.variant = "LazyDecode"
    /\ result.err.cause = "UnexpectedEof"
    /\ Len(module) = 2
    /\ module[1] = LazyFromValue(MemType(None, FALSE, FALSE, Limits(<<1>>, None)))
    /\ module[2] = LazyFromInput(<<0>>)

\* C18: without a feature the instruction decoder refuses the bytes the
\* feature adds, with an unsupported-discriminant error: opcode 0xFE without
\* threads, 0x08 / 0x0A / 0x1F without exception-handling, 0x12 without
\* tail-call, and a memory instruction whose alignment byte has the
\* multi-memory flag bit without multi-memory.  Stated on the first
\* instruction of the input.
Refused == ~val.ok /\ val.err.cause = "UnsupportedDiscriminant"

C18_FeatureGating ==
    (kind = "Expression" /\ origin = "bytes" /\ pc = "decoded" /\ src # << >>) =>
        /\ (src[1] = 254 /\ "threads" \notin features) => Refused
        /\ (src[1] \in {OP_CODE_THROW, OP_CODE_THROW_REF, OP_CODE_TRY_TABLE}
              /\ "exception-handling" \notin features) => Refused
        /\ (src[1] = 18 /\ "tail-call" \notin features) => Refused
        /\ (src[1] \in MemArgOps /\ Len(src) >= 2 /\ src[2] \in 64..127
              /\ "multi-memory" \notin features) => Refused

\* C19: the instruction loops never panic, and they reach their end only
\* with every structured start closed: a decode that stops at an End, or an
\* encode that writes the closing End, has seen as many Ends as starts, the
\* starts left open by the stream before included, however many those are.
Open(list) == Count(entered) + Starts(list, Len(list)) - Ends(list, Len(list))

C19_NoPanicNoWrap ==
    /\ (pc = "decoded" /\ origin = "bytes") =>
          /\ val.err.cause # Panicked
          /\ val.ok => Open(val.value) = 0
    /\ pc = "encoded" =>
          /\ out.err # Panicked
          /\ out.ok => Open(val.value) = 0

\* C20: a failed decode of an expression reports a path whose outermost
\* frame is Index(i), i a position of the list, also when what failed is
\* the read of an instruction's opcode byte.
C20_IndexFrame ==
    (kind = "Expression" /\ origin = "bytes" /\ pc = "decoded" /\ ~val.ok) =>
        /\ val.err.path # << >>
        /\ \E i \in 0..Len(src) : val.err.path[1] = IndexItem(i)

\* C21: when the decoder of an AlignedMemArg refuses a MemArg whose
\* alignment is not the fixed one, the error is an unsupported discriminant
\* whose value is the alignment that was read.
C21_ReportsAlignment ==
    (/\ kind \in AlignedKinds
     /\ origin = "bytes"
     /\ pc = "decoded"
     /\ DecodeMemArg(src).ok
     /\ DecodeMemArg(src).value.align_log2 # ToNum(AlignOf(kind))) =>
        /\ ~val.ok
        /\ val.err.cause = "UnsupportedDiscriminant"
        /\ val.err.discriminant = DecodeMemArg(src).value.align_log2

\* C22: PageSize::new and the PageSize decoder accept exactly the values up
\* to 64 (the decoder refuses a larger u32 with an unsupported discriminant),
\* and size() of an accepted PageSize returns 2^size_log2 as a u64, without
\* overflow: 1 for 0, 65536 for 16.
IsPowerOfTwo(d, k) ==
    /\ Len(d) = (k \div 7) + 1
    /\ \A i \in 1..Len(d) - 1 : d[i] = 0
    /\ d[Len(d)] = 2 ^ (k % 7)

C22_PageSize ==
    kind = "PageSize" =>
        /\ (pc = "decoded" /\ origin = "value") =>
              /\ val.ok <=> Count(src) <= 64
              /\ val.ok => val.value = src
        /\ (pc = "decoded" /\ origin = "bytes" /\ DecodeU32(src).ok) =>
              /\ val.ok <=> Count(DecodeU32(src).value) <= 64
              /\ val.ok => val.value = DecodeU32(src).value
              /\ ~val.ok =>
                    /\ val.err.cause = "UnsupportedDiscriminant"
                    /\ val.err.discriminant = DecodeU32(src).value
        /\ pc = "sized" =>
              /\ out.ok
              /\ IsPowerOfTwo(out.sink, Count(val.value))
              /\ FitsU64(out.sink)
              /\ val.value = << >> => out.sink = <<1>>
              /\ val.value = <<16>> => out.sink = <<0, 0, 4>>

\* C23: an encode of an instruction list that fails on an End at depth 0,
\* at position k of the list, has written the wire forms of the instructions
\* before k and nothing else; one that fails because starts are left open at
\* the end of the list has written the wire forms of all instructions and no
\* End after them.  (Lists whose nested TryTable bodies are balanced: the
\* failure is the list's own.)
Underflows(list) == {k \in 1..Len(list) : Ends(list, k) > Starts(list, k)}

FirstUnderflow(list) == CHOOSE k \in Underflows(list) : \A j \in Underflows(list) : k <= j

NestedBalanced(list) ==
    \A i \in 1..Len(list) :
       list[i].op = OP_CODE_TRY_TABLE => BalancedThroughout(list[i].instructions)

C23_SinkOnDepthError ==
    (kind = "Expression" /\ pc = "encoded" /\ NestedBalanced(val.value)) =>
        /\ Underflows(val.value) # {} =>
              /\ ~out.ok
              /\ out.err = "DepthError"
              /\ out.sink = WireForms(SubSeq(val.value, 1, FirstUnderflow(val.value) - 1))
        /\ (Underflows(val.value) = {} /\ ~Balanced(val.value)) =>
              /\ ~out.ok
              /\ out.err = "DepthError"
              /\ out.sink = WireForms(val.value)
        /\ ~out.ok => (Underflows(val.value) # {} \/ ~Balanced(val.value))

C23_Witness ==
    /\ kind = "Expression"
    /\ pc = "encoded"
    /\ val.value = <<WithBlockType(OP_CODE_BLOCK_START, BlockTypeEmpty), End, End>>
    /\ ~out.ok
    /\ out.err = "DepthError"
    /\ out.sink = <<2, 64, 11>>

\* C24: a decode of an instruction stream that succeeds has read an End at
\* depth 0 and stops right behind it: the bytes it consumed end with that
\* End, no shorter prefix of the input decodes, and the bytes after it are
\* left in the reader; an input that stops where only closing Ends are
\* missing fails with unexpected end of input and returns no list.
Closings == {[i \in 1..n |-> OP_CODE_END] : n \in 1..MaxBytes + 1}

\* the input with t after it decodes, to its last byte and not before
CompletedBy(t) ==
    /\ DecodeExpression(src \o t).ok
    /\ DecodeExpression(src \o t).rest = << >>

C24_EndsAtTerminator ==
    (kind = "Expression" /\ origin = "bytes" /\ pc = "decoded") =>
        /\ val.ok =>
              /\ Consumed # << >>
              /\ Consumed[Len(Consumed)] = OP_CODE_END
              /\ val.rest = SubSeq(src, Len(Consumed) + 1, Len(src))
              /\ Balanced(val.value)
              /\ DecodeExpression(Consumed) = [val EXCEPT !.rest = << >>]
              /\ \A n \in 0..Len(Consumed) - 1 : ~DecodeExpression(SubSeq(src, 1, n)).ok
        /\ (\E t \in Closings : CompletedBy(t)) =>
              /\ ~val.ok
              /\ val.err.cause = "UnexpectedEof"
              /\ val.value = NoValue

C24_Witness ==
    /\ kind = "Expression"
    /\ origin = "bytes"
    /\ pc = "decoded"
    /\ src = <<0, 11, 2, 64>>
    /\ val.ok
    /\ val.value = <<Plain(0)>>
    /\ val.rest = <<2, 64>>

====
